---- MODULE Spec2Model ----
(***************************************************************************)
(* NGNX.http.Server (src/index.js, class HttpServer, lines 781-1343):      *)
(* the route hot-reload registry.  The handler list is express's           *)
(* app._router.stack, the range index is managedroutes, the watch groups   *)
(* are monitors.  Each action is one call from the embedding application   *)
(* or one callback of the watch library, run to completion.                *)
(***************************************************************************)
EXTENDS Integers, Sequences, FiniteSets, TLC

\* ------------------------------------------------------------------ bounds
\* most handlers one route module registers
MaxHandlers == 2
\* most executions of route files (loads and reloads) in one behaviour
MaxGen == 4
\* most executions of route files in a behaviour that only loads and reloads
MaxGenReload == 6
\* most callables handed to createRoutes in one behaviour
MaxFns == 1

\* ------------------------------------------------------------ file system
\* route module files handed to createRoutes (absolute, resolved paths)
RouteFiles == {"r/a.js", "r/b.js"}
\* files that route modules require() themselves
DepFiles == {"r/d.js"}
AllFiles == RouteFiles \cup DepFiles

\* a route module file in another directory
MoreFiles == {"q/c.js"}
\* every file of the file system
Files == AllFiles \cup MoreFiles

\* path.dirname
dirname(f) == IF f \in MoreFiles THEN "q" ELSE "r"

\* the files a route module requires when it runs (let subtest = require('./subinclude'))
Requires(f) == IF f \in {"r/a.js", "r/b.js"} THEN {"r/d.js"} ELSE {}

\* the route modules that load dependency file d
RootsOf(d) == {f \in RouteFiles : d \in Requires(f)}

VARIABLES
  refresh,        \* cfg.refresh, fixed at construction
  exists,         \* file system: which files exist
  hasRouter,      \* app._router is defined
  stack,          \* app._router.stack, the handler list
  managedroutes,  \* file -> <<start, end>>
  monitors,       \* directory -> [files, ready, first]
  loaded,         \* file -> number of handlers of its most recent load
  gen,            \* number of route file executions so far
  fns,            \* number of callables run so far
  error,          \* "none", or the exception that left the last call or callback
                  \* uncaught: nothing runs after it
  mid,            \* handler lists standing at suspension points of the last callback
  last,           \* the step just taken
  created,        \* the directories watch.createMonitor was called with, in call order
  watchers,       \* directory -> "active" | "stopped": the monitor handed to the ready callback
  cfg,            \* the configuration the server was constructed with
  server,         \* this.server: "none", or the state of its listener
  portnumber,     \* this.portnumber
  bound,          \* the port the operating system bound the listener to (0: not bound)
  _running,       \* me._running
  _starting,      \* me._starting
  emitted         \* the lifecycle signals emitted so far, in order

vars == <<refresh, exists, hasRouter, stack, managedroutes,
          monitors, loaded, gen, fns, error, mid, last,
          created, watchers, cfg, server, portnumber, bound,
          _running, _starting, emitted>>

\* the state of the listener and of the lifecycle
lifecycle == <<cfg, server, portnumber, bound, _running, _starting, emitted>>

\* ---------------------------------------------------------------- helpers
Min(a, b) == IF a < b THEN a ELSE b
Max(a, b) == IF a > b THEN a ELSE b
Range(s) == {s[i] : i \in 1..Len(s)}

\* obj[k] = v
Put(fn, k, v) == [x \in (DOMAIN fn) \cup {k} |-> IF x = k THEN v ELSE fn[x]]
\* delete obj[k]
Remove(fn, k) == [x \in (DOMAIN fn) \ {k} |-> fn[x]]

\* the empty object {}
EmptyObj == [x \in {} |-> 0]

\* Array.prototype.splice(start, deleteCount): the array that remains
SpliceStart(len, start) == IF start < 0 THEN Max(len + start, 0) ELSE Min(start, len)
SpliceCount(len, st, dc) == Min(Max(dc, 0), len - st)
splice(arr, start, dc) ==
  LET len == Len(arr)
      st  == SpliceStart(len, start)
      n   == SpliceCount(len, st, dc)
  IN SubSeq(arr, 1, st) \o SubSeq(arr, st + n + 1, len)

\* the two layers express installs when it creates the router lazily
Builtins == << <<"query", "new", 1>>, <<"expressInit", "new", 1>> >>

\* handlers are <<owner, age, k>>: the k-th handler its owner registered in
\* its most recent execution ("new") or in an earlier one ("old")
Owner(h) == h[1]
Age(h) == h[2]

\* a new execution of mod begins: what it registered before is now old
Outdate(arr, mod) ==
  [i \in 1..Len(arr) |-> IF Owner(arr[i]) = mod THEN <<mod, "old", arr[i][3]>> ELSE arr[i]]

\* the state the methods of HttpServer read and write
Self == [hasRouter |-> hasRouter, stack |-> stack, managedroutes |-> managedroutes,
         monitors |-> monitors, loaded |-> loaded, gen |-> gen, fns |-> fns,
         error |-> "none",
         mid |-> {},
         created |-> created]

\* what a route file holds when it is run: the handlers it registers and
\* whether running it throws (after the last but one of them)
Contents == [n : 1..MaxHandlers, throws : BOOLEAN]

\* the file system a callback finds: which files exist, and what the file it
\* runs holds at that moment
Fs(ex, c) == [exists |-> ex,
              body |-> [f \in RouteFiles \cup MoreFiles |-> c.n],
              broken |-> IF c.throws THEN RouteFiles \cup MoreFiles ELSE {}]

\* get routes(): this.app._router.stack
routes(s) == s.stack

\* app.get / app.use: express creates the router on first use, then pushes
appUse(s, hs) ==
  IF hs = <<>> THEN s
  ELSE [s EXCEPT !.hasRouter = TRUE,
                 !.stack = (IF s.hasRouter THEN s.stack ELSE Builtins) \o hs]

\* the handlers one execution of a route file registers before it returns or throws
Registered(fs, mod) ==
  LET n == IF mod \in fs.broken THEN fs.body[mod] - 1 ELSE fs.body[mod]
  IN [k \in 1..n |-> <<mod, "new", k>>]

\* a reload that waits for the event loop between the splice and the load
YieldPoints_m == {"spliced"}

\* the points at which reloadRoutes/createRoutes hand control back to the
\* event loop before they are done: none, every call in them is synchronous
YieldPoints == {}

\* fileFilter(dir)(filepath)
fileFilter(mon, dir, filepath) ==
  IF dir \notin DOMAIN mon THEN FALSE
  ELSE filepath \in Range(mon[dir].files)

\* a monitor that watches whether or not refresh is on
monitor_m(s, filepath) ==
  LET dir == dirname(filepath)
      new == dir \notin DOMAIN s.monitors
      m1  == IF new
             THEN Put(s.monitors, dir, [files |-> <<>>, ready |-> FALSE, first |-> filepath])
             ELSE s.monitors
  IN [s EXCEPT !.monitors = [m1 EXCEPT ![dir].files = Append(@, filepath)],
               !.created = IF new THEN Append(@, dir) ELSE @]

\* a monitor that calls watch.createMonitor on every registration
monitor_m2(s, filepath) ==
  IF ~refresh THEN s
  ELSE
    LET dir == dirname(filepath)
        m1  == IF dir \notin DOMAIN s.monitors
               THEN Put(s.monitors, dir, [files |-> <<>>, ready |-> FALSE, first |-> filepath])
               ELSE s.monitors
        m2  == IF filepath \notin Range(m1[dir].files)
               THEN [m1 EXCEPT ![dir].files = Append(@, filepath)]
               ELSE m1
    IN [s EXCEPT !.monitors = m2, !.created = Append(@, dir)]

\* a monitor that leaves the files list to the watcher's callback
monitor_m3(s, filepath) ==
  IF ~refresh THEN s
  ELSE
    LET dir == dirname(filepath)
        new == dir \notin DOMAIN s.monitors
        m1  == IF new
               THEN Put(s.monitors, dir, [files |-> <<>>, ready |-> FALSE, first |-> filepath])
               ELSE s.monitors
    IN [s EXCEPT !.monitors = m1,
                 !.created = IF new THEN Append(@, dir) ELSE @]

\* monitor(filepath)
monitor(s, filepath) ==
  IF ~refresh THEN s
  ELSE
    LET dir == dirname(filepath)
        new == dir \notin DOMAIN s.monitors
        m1  == IF new
               THEN Put(s.monitors, dir, [files |-> <<>>, ready |-> FALSE, first |-> filepath])
               ELSE s.monitors
        m2  == IF filepath \notin Range(m1[dir].files)
               THEN [m1 EXCEPT ![dir].files = Append(@, filepath)]
               ELSE m1
    IN [s EXCEPT !.monitors = m2,
                 !.created = IF new THEN Append(@, dir) ELSE @]

\* a createRoutes that takes the range to start one entry early
createRoutes_m(s, fs, mod) ==
  IF ~fs.exists[mod] THEN s
  ELSE
    LET before == IF s.hasRouter THEN Len(routes(s)) - 2 ELSE 0
        hs     == Registered(fs, mod)
        s1     == appUse([s EXCEPT !.gen = @ + 1, !.stack = Outdate(@, mod)], hs)
    IN IF mod \in fs.broken
       THEN [s1 EXCEPT !.error = "LoaderError"]
       ELSE monitor([s1 EXCEPT
                       !.managedroutes = Put(@, mod, <<before + 1, Len(routes(s1)) - 1>>),
                       !.loaded = Put(@, mod, Len(hs))],
                    mod)

\* createRoutes(mod) with mod a path string
createRoutes(s, fs, mod) ==
  IF ~fs.exists[mod] THEN s
  ELSE
    LET before == IF s.hasRouter THEN Len(routes(s)) - 2 ELSE 0
        hs     == Registered(fs, mod)
        s1     == appUse([s EXCEPT !.gen = @ + 1, !.stack = Outdate(@, mod)], hs)
        part   == IF "registering" \in YieldPoints
                  THEN {s.stack \o SubSeq(hs, 1, k) : k \in 1..(Len(hs) - 1)}
                  ELSE {}
        s2     == [s1 EXCEPT !.mid = @ \cup part]
    IN IF mod \in fs.broken
       THEN [s2 EXCEPT !.error = "LoaderError"]
       ELSE monitor([s2 EXCEPT
                       !.managedroutes = Put(@, mod, <<before + 2, Len(routes(s2)) - 1>>),
                       !.loaded = Put(@, mod, Len(hs))],
                    mod)

\* a createRoutes that records a range for the callable as it does for a file
createRoutesFn_m(s) ==
  LET g  == s.fns + 1
      s1 == appUse([s EXCEPT !.fns = g], << <<"fn", "new", g>> >>)
  IN [s1 EXCEPT !.managedroutes = Put(@, "fn", <<Len(s1.stack) - 1, Len(s1.stack) - 1>>)]

\* createRoutes(mod) with mod a function
createRoutesFn(s) ==
  LET g == s.fns + 1
  IN appUse([s EXCEPT !.fns = g], << <<"fn", "new", g>> >>)

\* a reindexRoutes that shifts every stored range
reindexRoutes_m(mr, start, end) ==
  [p \in DOMAIN mr |-> <<mr[p][1] - start, mr[p][2] - end>>]

\* reindexRoutes(start, end)
reindexRoutes(mr, start, end) ==
  [p \in DOMAIN mr |->
     IF mr[p][1] > end
     THEN <<mr[p][1] - start, mr[p][2] - end>>
     ELSE mr[p]]

\* a reloadRoutes that reloads whether or not refresh is on
reloadRoutes_m(s, fs, f) ==
  IF ~s.hasRouter \/ f \notin DOMAIN s.managedroutes
  THEN [s EXCEPT !.error = "TypeError"]
  ELSE
    LET r == s.managedroutes[f]
    IN createRoutes([s EXCEPT !.stack = splice(routes(s), r[1], (r[2] - r[1]) + 1),
                              !.managedroutes = Remove(reindexRoutes(@, r[1], r[2]), f)],
                    fs, f)

\* reloadRoutes(f)
reloadRoutes(s, fs, f) ==
  IF ~refresh THEN s
  ELSE IF ~s.hasRouter \/ f \notin DOMAIN s.managedroutes
       THEN [s EXCEPT !.error = "TypeError"]
  ELSE
    LET r   == s.managedroutes[f]
        st1 == splice(routes(s), r[1], (r[2] - r[1]) + 1)
        mr1 == reindexRoutes(s.managedroutes, r[1], r[2])
        mr2 == Remove(mr1, f)
        s1  == [s EXCEPT !.stack = st1, !.managedroutes = mr2,
                         !.mid = IF "spliced" \in YieldPoints THEN {st1} ELSE {}]
    IN createRoutes(s1, fs, f)

\* the watcher of f's directory has called back and its filter lets f through
Delivered(f) ==
  /\ dirname(f) \in DOMAIN monitors
  /\ monitors[dirname(f)].ready
  /\ watchers[dirname(f)] = "active"
  /\ fileFilter(monitors, dirname(f), f)

\* ------------------------------------------------------------------- steps
Step(op, f, d) == [op |-> op, f |-> f, delivered |-> d, seen |-> <<>>]

Commit(s) ==
  /\ hasRouter' = s.hasRouter
  /\ stack' = s.stack
  /\ managedroutes' = s.managedroutes
  /\ monitors' = s.monitors
  /\ loaded' = s.loaded
  /\ gen' = s.gen
  /\ fns' = s.fns
  /\ error' = s.error
  /\ mid' = s.mid
  /\ created' = s.created

\* the configuration of the tests: new NGNX.http.Server({ poweredby: 'test', port: 0 })
TestCfg == [port |-> 0, poweredby |-> "test",
            whitelist |-> {}, blacklist |-> {}, allowedMethods |-> <<>>,
            allowedHeaders |-> <<>>, exposedHeaders |-> <<>>,
            credentials |-> FALSE, maxAge |-> 0]

\* the configurations a server is constructed with ("": the option is absent)
Configs == [port : {0, 8080}, poweredby : {"", "test"},
            whitelist : {{}}, blacklist : {{}}, allowedMethods : {<<>>},
            allowedHeaders : {<<>>}, exposedHeaders : {<<>>},
            credentials : {FALSE}, maxAge : {0}]

\* configurations with cross-origin options, each absent or given (maxAge 0:
\* cfg.maxAge || cfg.maxage || null): the options that decide on the origin
\* and on the methods, or those that name headers, credentials and max age
HttpConfigs ==
  [port : {0}, poweredby : {"test"},
   whitelist : {{}, {"a.com"}},
   blacklist : {{}, {"a.com"}, {"b.com"}},
   allowedMethods : {<<>>, <<"POST">>},
   allowedHeaders : {<<>>}, exposedHeaders : {<<>>},
   credentials : {FALSE}, maxAge : {0}]
  \cup
  [port : {0}, poweredby : {"test"},
   whitelist : {{}}, blacklist : {{}}, allowedMethods : {<<>>},
   allowedHeaders : {<<>>, <<"X-REQUESTED-WITH">>},
   exposedHeaders : {<<>>, <<"X-TEST">>},
   credentials : BOOLEAN,
   maxAge : {0, 100000}]

\* the ports the operating system hands out when asked for port 0
Ephemeral == {49152, 49153}

\* cfg.poweredby || 'NGN', read through get poweredbyHeader(): this.poweredby || null
poweredbyHeader(c) == IF c.poweredby # "" THEN c.poweredby ELSE "NGN"

\* new HttpServer(c)
New(c) ==
  /\ cfg = c
  /\ server = "none"
  /\ portnumber = c.port
  /\ bound = 0
  /\ _running = FALSE
  /\ _starting = FALSE
  /\ emitted = <<>>
  /\ created = <<>>
  /\ watchers = EmptyObj

Init ==
  /\ New(TestCfg)
  /\ refresh \in BOOLEAN
  /\ exists = [f \in Files |-> TRUE]
  /\ hasRouter = FALSE
  /\ stack = <<>>
  /\ managedroutes = EmptyObj
  /\ monitors = EmptyObj
  /\ loaded = EmptyObj
  /\ gen = 0
  /\ fns = 0
  /\ error = "none"
  /\ mid = {}
  /\ last = [op |-> "new", f |-> "", delivered |-> FALSE, seen |-> <<>>]

\* the application calls createRoutes(path); each route file is registered
\* once, and what the file contains is first seen when it is run
CreateRoutes ==
  \E f \in RouteFiles, c \in Contents :
    /\ error = "none"
    /\ gen < MaxGen
    /\ f \notin DOMAIN loaded
    /\ Commit(createRoutes(Self, Fs(exists, c), f))
    /\ last' = Step("createRoutes", f, FALSE)
    /\ UNCHANGED <<refresh, exists, watchers, lifecycle>>

\* the application calls createRoutes(fn), while it sets the server up
CreateRoutesFn ==
  /\ error = "none"
  /\ fns < MaxFns
  /\ \A dir \in DOMAIN monitors : ~monitors[dir].ready
  /\ Commit(createRoutesFn(Self))
  /\ last' = Step("createRoutesFn", "", FALSE)
  /\ UNCHANGED <<refresh, exists, watchers, lifecycle>>

\* watch.createMonitor calls back: function (m) { ... }
MonitorReady ==
  \E dir \in DOMAIN monitors :
    /\ error = "none"
    /\ ~monitors[dir].ready
    /\ monitors' = [monitors EXCEPT ![dir].ready = TRUE,
                                    ![dir].files = Append(@, monitors[dir].first)]
    /\ watchers' = Put(watchers, dir, "active")
    /\ mid' = {}
    /\ last' = Step("ready", dir, FALSE)
    /\ UNCHANGED <<refresh, exists, hasRouter, stack, managedroutes,
                   loaded, gen, fns, error, created, lifecycle>>

\* a file event: the file system changes and, when the watcher lets the file
\* through, m.on(<event>, function (f) { me.reloadRoutes(f) }) runs
Notify(op, f, ex, cap) ==
  /\ error = "none"
  /\ exists' = ex
  /\ IF Delivered(f)
     THEN /\ gen < cap
          /\ \E c \in Contents : Commit(reloadRoutes(Self, Fs(ex, c), f))
     ELSE /\ Commit(Self)
  /\ last' = Step(op, f, Delivered(f))
  /\ UNCHANGED <<refresh, watchers, lifecycle>>

Changed ==
  \E f \in AllFiles :
    /\ exists[f]
    /\ f \in RouteFiles => f \in DOMAIN loaded
    /\ Notify("changed", f, exists, MaxGen)

Removed ==
  \E f \in RouteFiles :
    /\ exists[f]
    /\ f \in DOMAIN loaded
    /\ Notify("removed", f, [exists EXCEPT ![f] = FALSE], MaxGen)

Created ==
  \E f \in RouteFiles :
    /\ ~exists[f]
    /\ Notify("created", f, [exists EXCEPT ![f] = TRUE], MaxGen)

\* a request is dispatched over the handler list in a turn of its own
Request ==
  /\ error = "none"
  /\ last.op # "request"
  /\ \E l \in {stack} \cup mid :
       last' = [Step("request", last.f, last.delivered) EXCEPT !.seen = l]
  /\ UNCHANGED <<refresh, exists, hasRouter, stack, managedroutes,
                 monitors, loaded, gen, fns, error, mid, created, watchers, lifecycle>>

Next ==
  \/ CreateRoutes
  \/ CreateRoutesFn
  \/ MonitorReady
  \/ Changed
  \/ Removed
  \/ Created
  \/ Request

Spec == Init /\ [][Next]_vars

\* route files are registered and then edited again and again
Edited ==
  \E f \in RouteFiles :
    /\ f \in DOMAIN loaded
    /\ Delivered(f)
    /\ Notify("changed", f, exists, MaxGenReload)

NextReload ==
  \/ CreateRoutes
  \/ MonitorReady
  \/ Edited

SpecReload == Init /\ [][NextReload]_vars

\* ------------------------------------------------------- surviving an error
\* the exception that left a watch callback reaches the process, whose
\* 'uncaughtException' handler lets the process go on
Survive ==
  /\ error # "none"
  /\ last.op \in {"created", "changed", "removed"}
  /\ Commit([Self EXCEPT !.mid = mid])
  /\ last' = Step("uncaughtException", last.f, FALSE)
  /\ UNCHANGED <<refresh, exists, watchers, lifecycle>>

NextSurvive ==
  \/ CreateRoutes
  \/ MonitorReady
  \/ Changed
  \/ Removed
  \/ Created
  \/ Survive

SpecSurvive == Init /\ [][NextSurvive]_vars

\* ------------------------------------------------------------ direct calls
\* the handler the ready callback registers for every watch event,
\* function (f) { me.reloadRoutes(f) }, run on a server whose refresh is off
HandleEvent ==
  \E f \in RouteFiles, op \in {"created", "changed", "removed"}, c \in Contents :
    /\ error = "none"
    /\ ~refresh
    /\ gen < MaxGen
    /\ exists[f] <=> op # "created"
    /\ exists' = [exists EXCEPT ![f] = (op # "removed")]
    /\ Commit(reloadRoutes(Self, Fs(exists', c), f))
    /\ last' = Step(op, f, TRUE)
    /\ UNCHANGED <<refresh, watchers, lifecycle>>

\* ---------------------------------------------------------- path resolution
\* path strings the application hands to createRoutes; "r/..." are absolute
\* paths below the working directory, "./r/..." are relative to it, and no
\* file named x exists
InputPaths == {"./r/a", "./r/b", "./r/x", "./r/x.js", "r/a.js", "r/x.js"}

\* a path taken apart: relative or absolute, the file's name, whether it ends
\* in .js, and how often the working directory was joined in front of an
\* absolute path
Path(str) ==
  CASE str = "./r/a"    -> [rel |-> TRUE,  name |-> "a", js |-> FALSE, depth |-> 0]
    [] str = "./r/b"    -> [rel |-> TRUE,  name |-> "b", js |-> FALSE, depth |-> 0]
    [] str = "./r/x"    -> [rel |-> TRUE,  name |-> "x", js |-> FALSE, depth |-> 0]
    [] str = "./r/x.js" -> [rel |-> TRUE,  name |-> "x", js |-> TRUE,  depth |-> 0]
    [] str = "r/a.js"   -> [rel |-> FALSE, name |-> "a", js |-> TRUE,  depth |-> 0]
    [] str = "r/x.js"   -> [rel |-> FALSE, name |-> "x", js |-> TRUE,  depth |-> 0]

\* the file a path names
FileOf(p) ==
  CASE p.name = "a" -> "r/a.js"
    [] p.name = "b" -> "r/b.js"
    [] OTHER        -> "r/x.js"

\* path.extname(mod)
extname(p) == IF p.js THEN ".js" ELSE ""

\* mod + '.js'
withJs(p) == [p EXCEPT !.js = TRUE]

\* path.resolve(mod)
resolve(p) == [p EXCEPT !.rel = FALSE]

\* path.join(process.cwd(), mod)
joinCwd(p) == IF p.rel THEN [p EXCEPT !.rel = FALSE] ELSE [p EXCEPT !.depth = @ + 1]

\* NGN.util.pathExists(mod): relative paths are looked up from the working directory
pathExists(ex, p) ==
  /\ p.depth = 0
  /\ p.js
  /\ FileOf(p) \in DOMAIN ex
  /\ ex[FileOf(p)]

\* the path createRoutes ends up with before it tests NGN.util.pathExists(mod)
resolveModule(ex, mod) ==
  IF pathExists(ex, resolve(mod)) THEN mod
  ELSE
    LET m1 == IF extname(mod) # ".js" THEN withJs(mod) ELSE mod
        m2 == IF ~pathExists(ex, resolve(m1)) THEN joinCwd(m1) ELSE m1
    IN IF pathExists(ex, m2) THEN joinCwd(m2) ELSE m2

\* a createRoutes that requires the path without testing that it exists
createRoutesPath_m(s, fs, str) ==
  LET mod == resolveModule(fs.exists, Path(str))
  IN IF pathExists(fs.exists, mod)
     THEN createRoutes(s, fs, FileOf(mod))
     ELSE [s EXCEPT !.error = "MODULE_NOT_FOUND"]

\* createRoutes(mod) with mod a path string as the application writes it
createRoutesPath(s, fs, str) ==
  LET mod == resolveModule(fs.exists, Path(str))
  IN IF pathExists(fs.exists, mod)
     THEN createRoutes(s, fs, FileOf(mod))
     ELSE s

\* the application calls createRoutes(path)
CreateRoutesPath ==
  \E str \in InputPaths :
    LET mod == resolveModule(exists, Path(str))
    IN /\ error = "none"
       /\ gen < MaxGen
       /\ pathExists(exists, mod) => FileOf(mod) \notin DOMAIN loaded
       /\ \E c \in (IF pathExists(exists, mod) THEN Contents
                     ELSE {[n |-> 1, throws |-> FALSE]}) :
            Commit(createRoutesPath(Self, Fs(exists, c), str))
       /\ last' = Step("createRoutesPath", str, FALSE)
       /\ UNCHANGED <<refresh, exists, watchers, lifecycle>>

NextCalls ==
  \/ CreateRoutesPath
  \/ CreateRoutesFn
  \/ MonitorReady
  \/ Removed
  \/ Created
  \/ HandleEvent

SpecCalls == Init /\ [][NextCalls]_vars

\* --------------------------------------------------------------- lifecycle
\* the application registers a route file of another directory
CreateRoutesMore ==
  \E f \in MoreFiles, c \in Contents :
    /\ error = "none"
    /\ gen < MaxGen
    /\ f \notin DOMAIN loaded
    /\ Commit(createRoutes(Self, Fs(exists, c), f))
    /\ last' = Step("createRoutes", f, FALSE)
    /\ UNCHANGED <<refresh, exists, watchers, lifecycle>>

\* start(), called once
Start ==
  /\ error = "none"
  /\ server = "none"
  /\ _starting' = TRUE
  /\ Commit(IF poweredbyHeader(cfg) # ""
            THEN appUse(Self, << <<"poweredby", "new", 1>> >>)
            ELSE Self)
  /\ server' = IF portnumber <= 0 THEN "probing" ELSE "binding"
  /\ last' = Step("start", "", FALSE)
  /\ UNCHANGED <<refresh, exists, watchers, cfg, portnumber, bound, _running, emitted>>

\* c.listen(0, function () { me.portnumber = c.address().port; c.close(...) })
ProbeListening ==
  /\ error = "none"
  /\ server = "probing"
  /\ \E p \in Ephemeral : portnumber' = p
  /\ server' = "probeclosing"
  /\ Commit(Self)
  /\ last' = Step("probe", "", FALSE)
  /\ UNCHANGED <<refresh, exists, watchers, cfg, bound, _running, _starting, emitted>>

\* c.close(function () { me.server.listen(me.portnumber, me.ip, ...) })
ProbeClosed ==
  /\ error = "none"
  /\ server = "probeclosing"
  /\ server' = "binding"
  /\ Commit(Self)
  /\ last' = Step("probeclosed", "", FALSE)
  /\ UNCHANGED <<refresh, exists, watchers, cfg, portnumber, bound,
                 _running, _starting, emitted>>

\* a listen callback that leaves the starting flag set
Listening_m ==
  /\ error = "none"
  /\ server = "binding"
  /\ server' = "listening"
  /\ bound' \in (IF portnumber <= 0 THEN Ephemeral ELSE {portnumber})
  /\ _running' = TRUE
  /\ portnumber' = bound'
  /\ emitted' = Append(emitted, "start")
  /\ Commit(Self)
  /\ last' = Step("listening", "", FALSE)
  /\ UNCHANGED <<refresh, exists, watchers, cfg, _starting>>

\* the callback of server.listen: the listener is bound, to the port asked
\* for or, asked for port 0, to one the operating system chose
Listening ==
  /\ error = "none"
  /\ server = "binding"
  /\ server' = "listening"
  /\ bound' \in (IF portnumber <= 0 THEN Ephemeral ELSE {portnumber})
  /\ _running' = TRUE
  /\ _starting' = FALSE
  /\ portnumber' = bound'
  /\ emitted' = Append(emitted, "start")
  /\ Commit(Self)
  /\ last' = Step("listening", "", FALSE)
  /\ UNCHANGED <<refresh, exists, watchers, cfg>>

\* the port is taken: the listener emits 'error', which nothing handles
ListenFailed ==
  /\ error = "none"
  /\ server = "binding"
  /\ Commit([Self EXCEPT !.error = "EADDRINUSE"])
  /\ last' = Step("listenfailed", "", FALSE)
  /\ UNCHANGED <<refresh, exists, watchers, lifecycle>>

\* Object.keys(this.monitors): the directories in the order their groups were made
Keys == created

\* the first group Object.keys(this.monitors).forEach reaches that has no
\* monitor yet (Len(Keys) + 1: none)
FirstWithoutMonitor ==
  LET bad == {i \in 1..Len(Keys) : ~monitors[Keys[i]].ready}
  IN IF bad = {} THEN Len(Keys) + 1 ELSE CHOOSE i \in bad : \A j \in bad : i <= j

\* stop(), called by the application once the server listens
Stop ==
  /\ error = "none"
  /\ server = "listening"
  /\ watchers' = [d \in DOMAIN watchers |->
                    IF \E i \in 1..(FirstWithoutMonitor - 1) : Keys[i] = d
                    THEN "stopped" ELSE watchers[d]]
  /\ IF FirstWithoutMonitor <= Len(Keys)
     THEN /\ Commit([Self EXCEPT !.error = "TypeError"])
          /\ server' = server
     ELSE /\ Commit(Self)
          /\ server' = "closing"
  /\ last' = Step("stop", "", FALSE)
  /\ UNCHANGED <<refresh, exists, cfg, portnumber, bound, _running, _starting, emitted>>

\* the listener has closed: function () { this._running = false; me.emit('stop') },
\* where this is the http server, not the HttpServer
Closed ==
  /\ error = "none"
  /\ server = "closing"
  /\ server' = "closed"
  /\ bound' = 0
  /\ emitted' = Append(emitted, "stop")
  /\ Commit(Self)
  /\ last' = Step("closed", "", FALSE)
  /\ UNCHANGED <<refresh, exists, watchers, cfg, portnumber, _running, _starting>>

InitWith(cs) ==
  /\ \E c \in cs : New(c)
  /\ refresh \in BOOLEAN
  /\ exists = [f \in Files |-> TRUE]
  /\ hasRouter = FALSE
  /\ stack = <<>>
  /\ managedroutes = EmptyObj
  /\ monitors = EmptyObj
  /\ loaded = EmptyObj
  /\ gen = 0
  /\ fns = 0
  /\ error = "none"
  /\ mid = {}
  /\ last = [op |-> "new", f |-> "", delivered |-> FALSE, seen |-> <<>>]

InitLife == InitWith(Configs)

NextLife ==
  \/ CreateRoutes
  \/ CreateRoutesMore
  \/ MonitorReady
  \/ Start
  \/ ProbeListening
  \/ ProbeClosed
  \/ Listening
  \/ ListenFailed
  \/ Stop
  \/ Closed

SpecLife == InitLife /\ [][NextLife]_vars

\* ---------------------------------------------------------------- requests
\* requests to /ping, a path every route module serves with app.get
Requests == [method : {"GET", "OPTIONS"},
             origin : {"a.com", "b.com"},
             acrh   : {"", "X-A"}]

\* the handlers that answer a request themselves: the app.get routes
IsRoute(h) == Owner(h) \notin {"query", "expressInit", "poweredby"}

\* the response to req of a server whose handler list is stk: the handlers
\* run in list order up to the first that answers; express answers OPTIONS
\* itself with the methods of the matching routes, and 404 when no route matches
respond(c, stk, req) ==
  LET at   == {i \in 1..Len(stk) : IsRoute(stk[i])}
      stop == IF req.method = "GET" /\ at # {}
              THEN CHOOSE i \in at : \A j \in at : i <= j
              ELSE Len(stk) + 1
      ran  == {Owner(stk[i]) : i \in 1..(stop - 1)}
      xpb  == IF "poweredby" \in ran THEN {poweredbyHeader(c)}
              ELSE IF "expressInit" \in ran THEN {"Express"} ELSE {}
  IN [status  |-> IF at = {} THEN 404 ELSE 200,
      body    |-> IF at = {} THEN "Cannot " \o req.method
                  ELSE IF req.method = "GET" THEN "OK" ELSE "GET,HEAD",
      headers |-> [n \in {h \in {"x-powered-by"} : xpb # {}} |-> CHOOSE v \in xpb : TRUE],
      ran     |-> ran]

\* a client sends a request to the listening server
HttpRequest ==
  /\ error = "none"
  /\ server = "listening"
  /\ \E req \in Requests :
       last' = [op |-> "http", f |-> "", delivered |-> FALSE, seen |-> stack,
                req |-> req, res |-> respond(cfg, stack, req)]
  /\ Commit(Self)
  /\ UNCHANGED <<refresh, exists, watchers, lifecycle>>

InitHttp == InitWith(HttpConfigs)

NextHttp ==
  \/ CreateRoutes
  \/ CreateRoutesFn
  \/ Start
  \/ ProbeListening
  \/ ProbeClosed
  \/ Listening
  \/ HttpRequest

SpecHttp == InitHttp /\ [][NextHttp]_vars

\* route files of two directories are registered, edited, removed and put back
NextWatch ==
  \/ CreateRoutes
  \/ CreateRoutesMore
  \/ MonitorReady
  \/ Changed
  \/ Removed
  \/ Created

SpecWatch == Init /\ [][NextWatch]_vars

\* ------------------------------------------------------------ properties
WatchOps == {"created", "changed", "removed"}

\* the step just taken ran reloadRoutes(f) for a file that had a range
Reloading(f) ==
  /\ last'.op \in WatchOps
  /\ last'.delivered
  /\ last'.f = f
  /\ hasRouter
  /\ f \in DOMAIN managedroutes

\* the indices (0-based) of a stored range
Indices(r) == r[1]..r[2]

\* C1: removing a tracked module's range [start,end] moves both bounds of
\* every other tracked module whose start is greater than end down by
\* exactly (end - start + 1)
C1_RemoveRangeShiftsByCount ==
  [][\A f \in RouteFiles :
       Reloading(f) =>
         LET start == managedroutes[f][1]
             end   == managedroutes[f][2]
             count == (end - start) + 1
         IN \A p \in (DOMAIN managedroutes) \ {f} :
              managedroutes[p][1] > end =>
                /\ p \in DOMAIN managedroutes'
                /\ managedroutes'[p] = <<managedroutes[p][1] - count,
                                         managedroutes[p][2] - count>>]_vars

\* the handlers at the stored range of f are those of f's most recent load
MirrorOf(f) ==
  LET r == managedroutes[f]
  IN /\ r[1] >= 0
     /\ r[2] < Len(stack)
     /\ (r[2] - r[1]) + 1 = loaded[f]
     /\ \A k \in 1..loaded[f] : stack[r[1] + k] = <<f, "new", k>>

\* C2: for every tracked module the entries of the handler list at its
\* stored range are exactly the handlers of its most recent load
C2_RangesMirrorLayout == \A f \in DOMAIN managedroutes : MirrorOf(f)

\* C3: stored ranges of distinct tracked modules do not overlap and every
\* stored range lies within [0, handlerList.length - 1] (checked where files
\* are edited up to MaxGenReload times, SpecReload)
C3_RangesDisjointInBounds ==
  /\ \A f \in DOMAIN managedroutes :
       Indices(managedroutes[f]) \subseteq 0..(Len(stack) - 1)
  /\ \A f, p \in DOMAIN managedroutes :
       f # p => Indices(managedroutes[f]) \cap Indices(managedroutes[p]) = {}

\* the handlers of f's most recent load, in registration order
LatestHandlers(ld, f) == [k \in 1..ld[f] |-> <<f, "new", k>>]

\* the handlers of the list that f registered, in list order
OwnedBy(f) == SelectSeq(stack, LAMBDA h : Owner(h) = f)

\* f has no handler in the list and no entry in the range index
Absent(f) ==
  /\ f \notin DOMAIN managedroutes
  /\ \A i \in 1..Len(stack) : Owner(stack[i]) # f

\* the step just taken was a watch event on f that reached reloadRoutes
Handled(op, f) ==
  /\ last.op = op
  /\ last.delivered
  /\ last.f = f

\* C4: a reload keeps the global order: the module's new handlers stand at
\* its original start position, what preceded it still precedes it and what
\* followed it (a catch-all, say) still follows it
C4_ReloadKeepsOrder ==
  [][\A f \in RouteFiles :
       (Reloading(f) /\ last'.op = "changed" /\ MirrorOf(f) /\ error' = "none") =>
         LET start == managedroutes[f][1]
             end   == managedroutes[f][2]
         IN stack' = SubSeq(stack, 1, start)
                       \o LatestHandlers(loaded', f)
                       \o SubSeq(stack, end + 2, Len(stack))]_vars

\* C5: after a Changed event on a tracked module the list holds exactly one
\* copy of the module's handlers, those of the re-executed file, and none of
\* an earlier load
C5_ChangedLeavesOneCopy ==
  \A f \in RouteFiles :
    (Handled("changed", f) /\ error = "none") =>
      OwnedBy(f) = LatestHandlers(loaded, f)

\* C6: after a Removed event on a tracked module its handlers are gone, it
\* has no range, and it stays absent until a later Created event for it
C6_RemovedStaysAbsent ==
  /\ [](\A f \in RouteFiles :
          (Handled("removed", f) /\ error = "none") => Absent(f))
  /\ [][\A f \in RouteFiles :
          (Absent(f) /\ ~exists[f] /\ ~(last'.op = "created" /\ last'.f = f))
            => Absent(f)']_vars

\* C7: a Created event for a file whose module is unregistered or was
\* removed runs the loader and registers the module again
C7_CreatedRegisters ==
  \A f \in RouteFiles :
    (Handled("created", f) /\ error # "LoaderError") =>
      /\ error = "none"
      /\ f \in DOMAIN managedroutes
      /\ MirrorOf(f)

C9_DependencyReloadsRoots ==
  [][\A d \in DepFiles :
       (/\ last'.op = "changed"
        /\ last'.f = d
        /\ refresh
        /\ dirname(d) \in DOMAIN monitors
        /\ monitors[dirname(d)].ready) =>
         \A p \in RouteFiles :
           (p \in RootsOf(d) /\ p \in DOMAIN managedroutes /\ exists[p])
             <=> (p \in DOMAIN loaded /\ gen' # gen)]_vars

\* C10: when the loader throws during a reload the error leaves the watch
\* callback and the module is absent, not stale: none of its old handlers is
\* in the list and it has no range
C10_FailedReloadLeavesAbsent ==
  \A f \in RouteFiles :
    (last.op \in WatchOps /\ last.delivered /\ last.f = f /\ error = "LoaderError") =>
      /\ f \notin DOMAIN managedroutes
      /\ \A i \in 1..Len(stack) : Owner(stack[i]) = f => Age(stack[i]) = "new"

\* C11: when refresh is disabled at construction no watch group is ever
\* created: whatever createRoutes calls were made, with paths or callables,
\* the monitors collection is empty and watch.createMonitor was never called
C11_NoWatchGroupsWithoutRefresh ==
  ~refresh => (monitors = EmptyObj /\ created = <<>> /\ watchers = EmptyObj)

\* refresh is off and both route files and a callable have been registered
C11_Witness ==
  /\ ~refresh
  /\ DOMAIN managedroutes = RouteFiles
  /\ fns > 0
  /\ monitors = EmptyObj

\* C12: when refresh is disabled, handling a Created, Changed or Removed
\* event is a no-op: the handler list, the range index and the watch groups
\* are unchanged (and nothing is thrown)
C12_EventsAreNoOpsWithoutRefresh ==
  [][(~refresh /\ last'.op \in WatchOps /\ last'.delivered) =>
       /\ stack' = stack
       /\ hasRouter' = hasRouter
       /\ managedroutes' = managedroutes
       /\ monitors' = monitors
       /\ created' = created
       /\ error' = "none"]_vars

\* refresh is off and the handler has just run for a file that has a range
C12_Witness ==
  /\ ~refresh
  /\ last.op \in WatchOps
  /\ last.delivered
  /\ last.f \in DOMAIN managedroutes
  /\ OwnedBy(last.f) # <<>>

\* C13: createRoutes given a callable runs it at once, so that its handlers
\* are appended at the tail of the handler list, and does not track it: the
\* range index and the watch groups are unchanged and no existing handler or
\* stored range moves
C13_CallableAppendedUntracked ==
  [][(last'.op = "createRoutesFn" /\ fns' = fns + 1) =>
       /\ managedroutes' = managedroutes
       /\ monitors' = monitors
       /\ created' = created
       /\ Len(stack') > Len(stack)
       /\ stack'[Len(stack')] = <<"fn", "new", fns'>>
       /\ hasRouter => SubSeq(stack', 1, Len(stack)) = stack
       /\ error' = "none"]_vars

\* a callable has just been run on a server that tracks a route file and
\* watches its directory
C13_Witness ==
  /\ last.op = "createRoutesFn"
  /\ DOMAIN managedroutes # {}
  /\ monitors # EmptyObj
  /\ Owner(stack[Len(stack)]) = "fn"
  /\ \E i \in 1..Len(stack) : Owner(stack[i]) \in RouteFiles

\* no file exists at the path as given, with .js appended, or joined to the
\* working directory
Unresolvable(ex, str) ==
  \A q \in {Path(str), withJs(Path(str)), joinCwd(Path(str)), joinCwd(withJs(Path(str)))} :
    ~pathExists(ex, q)

\* C14: createRoutes given a path string that resolves to no existing file
\* (as given, with the default extension appended, or relative to the working
\* directory) is a silent no-op: no error, no handler added, no range
\* recorded, no file registered for watching
C14_UnresolvablePathIsNoOp ==
  [][(last'.op = "createRoutesPath" /\ Unresolvable(exists, last'.f)) =>
       /\ error' = "none"
       /\ stack' = stack
       /\ hasRouter' = hasRouter
       /\ managedroutes' = managedroutes
       /\ loaded' = loaded
       /\ monitors' = monitors
       /\ created' = created]_vars

\* createRoutes has just been given a path at which nothing exists, on a
\* server that already tracks a route file
C14_Witness ==
  /\ last.op = "createRoutesPath"
  /\ Unresolvable(exists, last.f)
  /\ DOMAIN managedroutes # {}
  /\ error = "none"

\* C15: after stop() every watch group that was ever created has had its
\* watcher stopped, and no watcher stays active after shutdown, whatever the
\* interleaving of createRoutes, the watcher-ready callback, start() and stop()
C15_StopStopsEveryWatcher ==
  /\ last.op = "stop" =>
       \A d \in DOMAIN monitors : d \in DOMAIN watchers /\ watchers[d] = "stopped"
  /\ server \in {"closing", "closed"} =>
       \A d \in DOMAIN watchers : watchers[d] # "active"

\* the start signal was emitted by the step just taken
StartEmitted ==
  /\ emitted' # emitted
  /\ emitted'[Len(emitted')] = "start"

\* C16: the start signal is emitted only after the listener is bound; at
\* that moment the server is marked running and no longer starting, and the
\* reported port is the port actually bound, non-zero even when port 0 was
\* configured
C16_StartAfterBound ==
  [][StartEmitted =>
       /\ server' = "listening"
       /\ bound' # 0
       /\ _running'
       /\ ~_starting'
       /\ portnumber' = bound'
       /\ portnumber' # 0]_vars

\* a server configured with port 0 has just emitted start
C16_Witness ==
  /\ cfg.port = 0
  /\ last.op = "listening"
  /\ emitted = <<"start">>
  /\ portnumber \in Ephemeral

\* the stop signal was emitted by the step just taken
StopEmitted ==
  /\ emitted' # emitted
  /\ emitted'[Len(emitted')] = "stop"

\* C17: after stop() is called on a started server the listener is closed,
\* and the stop signal is emitted once, only after the listener has closed
C17_StopClosesThenSignals ==
  /\ [](last.op = "stop" => server \in {"closing", "closed"})
  /\ [][StopEmitted =>
          /\ server' = "closed"
          /\ Len(SelectSeq(emitted', LAMBDA e : e = "stop")) = 1]_vars

\* the directories watch.createMonitor was called for more than once
CreatedTwice ==
  {d \in Range(created) : Cardinality({i \in 1..Len(created) : created[i] = d}) > 1}

\* C18: at most one watch group per directory, created lazily when a file of
\* that directory is first registered: over any sequence of createRoutes
\* calls and reloads watch.createMonitor is called at most once per directory
\* and never for a directory without a registered file
C18_OneWatchGroupPerDirectory ==
  /\ CreatedTwice = {}
  /\ Range(created) = DOMAIN monitors
  /\ \A d \in Range(created) :
       \E f \in DOMAIN loaded : dirname(f) = d /\ f \in Range(monitors[d].files)

\* two directories are watched, and a file of one of them has been reloaded
\* after a second file of that directory was registered
C18_Witness ==
  /\ Len(created) = 2
  /\ Cardinality(DOMAIN loaded) = 3
  /\ last.op \in WatchOps
  /\ last.delivered

\* the origin decision of the priority rules: a non-empty whitelist decides
\* alone, else a non-empty blacklist, else every origin is allowed
Allowed(c, origin) ==
  IF c.whitelist # {} THEN origin \in c.whitelist
  ELSE IF c.blacklist # {} THEN origin \notin c.blacklist
  ELSE TRUE

\* the values of header name in a response
HeaderOf(res, name) == IF name \in DOMAIN res.headers THEN {res.headers[name]} ELSE {}

\* C19: the origin decision follows the priority rules for every request
\* origin and configuration: with a whitelist the origin is allowed iff it is
\* listed (else no allow-origin is emitted), else with a blacklist iff it is
\* not listed, else always; an allowed decision echoes the request's origin
C19_OriginDecision ==
  last.op = "http" =>
    HeaderOf(last.res, "access-control-allow-origin")
      = (IF Allowed(cfg, last.req.origin) THEN {last.req.origin} ELSE {})

\* some cross-origin option is configured
CorsConfigured(c) == c.whitelist # {} \/ c.blacklist # {} \/ c.allowedMethods # <<>>

\* C20: a preflight request (OPTIONS carrying CORS request headers) to a
\* server with CORS configured short-circuits the handler chain and is
\* answered with 204, an empty body and the configured headers; with
\* allowedMethods = ['POST'] it carries Access-Control-Allow-Methods: POST
C20_PreflightAnswered ==
  (/\ last.op = "http"
   /\ last.req.method = "OPTIONS"
   /\ last.req.acrh # ""
   /\ CorsConfigured(cfg)) =>
    /\ last.res.status = 204
    /\ last.res.body = ""
    /\ "poweredby" \notin last.res.ran
    /\ cfg.allowedMethods = <<"POST">> =>
         HeaderOf(last.res, "access-control-allow-methods") = {"POST"}

\* a configured list as a header carries it
List(seq) == IF seq = <<>> THEN "" ELSE seq[1]

\* C21: the allow-headers value is the configured allowedHeaders, verbatim,
\* when allowedHeaders is configured, and otherwise the request's own
\* Access-Control-Request-Headers value mirrored back unchanged
C21_AllowHeaders ==
  (last.op = "http" /\ last.req.method = "OPTIONS") =>
    HeaderOf(last.res, "access-control-allow-headers")
      = (IF cfg.allowedHeaders # <<>> THEN {List(cfg.allowedHeaders)}
         ELSE IF last.req.acrh # "" THEN {last.req.acrh}
         ELSE {})

PoweredByInstalled == \E i \in 1..Len(stack) : Owner(stack[i]) = "poweredby"

\* C23: when the poweredby option is absent the identifying header is
\* disabled, no powered-by handler being installed at start; when it is
\* present its value is used for the header
C23_PoweredByOnlyIfConfigured ==
  server # "none" =>
    IF cfg.poweredby = ""
    THEN ~PoweredByInstalled
    ELSE PoweredByInstalled /\ poweredbyHeader(cfg) = cfg.poweredby

\* the step just taken was a createRoutes call that loaded file f
Loaded(f) ==
  /\ last'.op = "createRoutes"
  /\ last'.f = f
  /\ error' = "none"
  /\ gen' = gen + 1

C25_EarlierRangesKept ==
  [][\A f \in RouteFiles :
       Reloading(f) =>
         \A p \in (DOMAIN managedroutes) \ {f} :
           managedroutes[p][1] <= managedroutes[f][2] =>
             /\ p \in DOMAIN managedroutes'
             /\ managedroutes'[p] = managedroutes[p]]_vars

\* r/b.js, registered after r/a.js, has just been reloaded for the first time
C25_Witness ==
  /\ last.op \in WatchOps
  /\ last.delivered
  /\ last.f = "r/b.js"
  /\ gen = 3
  /\ fns = 0
  /\ DOMAIN managedroutes = RouteFiles
  /\ managedroutes["r/a.js"] = <<2, 1 + loaded["r/a.js"]>>

\* C26: the watched paths of a watch group behave as a set: however
\* monitor() calls interleave with the watcher-ready callback, no path is
\* more than once in a group's files list
C26_FilesAreASet ==
  \A d \in DOMAIN monitors :
    \A i, j \in 1..Len(monitors[d].files) :
      monitors[d].files[i] = monitors[d].files[j] => i = j

\* C27: stop() never fails because of a watch group without a watcher
\* handle: in every interleaving, stop() before a group's ready callback
\* included, each group stop() iterates over has a handle to stop and stop()
\* goes on to close the listener
C27_StopFindsEveryHandle ==
  last.op = "stop" =>
    /\ error = "none"
    /\ \A i \in 1..Len(Keys) : monitors[Keys[i]].ready
    /\ server = "closing"

\* the handlers of a list that f did not register, in list order
Others(stk, f) == SelectSeq(stk, LAMBDA h : Owner(h) # f)

\* C28: processing a watch event for module M removes from the handler list
\* only handlers M itself registered: the built-in leading entries, handlers
\* of callables and handlers of other modules are never removed, whatever
\* reloads came before
C28_ReloadRemovesOnlyOwn ==
  [][\A f \in RouteFiles :
       (last'.op \in WatchOps /\ last'.delivered /\ last'.f = f) =>
         Others(stack', f) = Others(stack, f)]_vars

C30_RunningFollowsLifecycle ==
  /\ [](emitted = <<"start">> => _running)
  /\ [][StopEmitted => ~_running']_vars

\* C31: with refresh enabled, in every reachable state each file that has a
\* range-index entry is in the files list of the watch group of its
\* directory, and a file once registered in a watch group is never dropped
\* from it, so that the watcher's filter still lets a removed file through
C31_TrackedFilesStayWatched ==
  /\ [](refresh => \A f \in DOMAIN managedroutes :
                     fileFilter(monitors, dirname(f), f))
  /\ [][\A d \in DOMAIN monitors :
         /\ d \in DOMAIN monitors'
         /\ \A f \in Range(monitors[d].files) : fileFilter(monitors', d, f)]_vars

\* a delivered removal took a file's range entry away while another file is
\* still tracked, and both are in the files lists of their watch groups
C31_Witness ==
  /\ refresh
  /\ last.op = "removed" /\ last.delivered /\ error = "none"
  /\ ~exists[last.f]
  /\ last.f \notin DOMAIN managedroutes
  /\ fileFilter(monitors, dirname(last.f), last.f)
  /\ \E g \in DOMAIN managedroutes :
       dirname(g) # dirname(last.f) /\ fileFilter(monitors, dirname(g), g)

====
